---- MODULE Spec2Model ----
(***************************************************************************)
(* A model of the segment / index / store triad of the commit log          *)
(* (src/internal/log/segment.go, src/internal/log/index.go).               *)
(*                                                                         *)
(* Files are byte sequences.  The index file and its MAP_SHARED mapping    *)
(* are one byte sequence (indexFile): a write through the mapping is a     *)
(* write to the file.  The store is a file plus a write buffer.            *)
(*                                                                         *)
(* TLC's integers are 32 bits wide, so the two integer widths of the       *)
(* program are scaled: uint64/int64 arithmetic is done modulo 2^30 and     *)
(* uint32 modulo 2^15.  What the program's conversions do (wrap-around of  *)
(* an unsigned subtraction, the sign of int64(x), the truncation of        *)
(* uint32(x)) is kept; every size, position and offset the model stores    *)
(* is far below 2^15.                                                      *)
(***************************************************************************)
EXTENDS Integers, Sequences, FiniteSets, TLC

VARIABLES
    baseOffset,     \* segment.baseOffset, the argument of newSegment
    MaxIndexBytes,  \* config.Segment.MaxIndexBytes
    MaxStoreBytes,  \* config.Segment.MaxStoreBytes
    seg,            \* "none": no live segment value, "open", "failed": Close returned an error,
                    \* "dead": Remove deleted the index and not the store (fatal for the owning log)
    nextOffset,     \* segment.nextOffset
    idxSize,        \* index.size
    indexExists,    \* {baseOffset}.index exists
    indexFile,      \* bytes of {baseOffset}.index (and of the mapping while open)
    storeExists,    \* {baseOffset}.store exists
    storeFile,      \* bytes of {baseOffset}.store already written to the file
    storeBuf,       \* bytes in the store's buffered writer
    storeSize,      \* store.size
    ret,            \* what the last call returned to its caller
    log,            \* history: <<[off, value, pos]>> of the Appends that returned nil, since the index file was created
    storeRecs,      \* history: the number of store appends so far
    unclean,        \* history: the index file was left pre-extended by a crash or a failed newIndex
    lastNext,       \* history: nextOffset at the last successful Close
    mu,             \* store.mu: 0 when free, else the thread holding it
    tpc,            \* per thread: position inside store.Append
    tpay,           \* per thread: the payload being appended
    tpos,           \* per thread: the local variable pos of store.Append
    tlock,          \* history, per thread: store.size when the thread took the lock
    calls           \* history: <<[t, pos, p, atLock]>> of the store.Append calls that returned

vars == <<baseOffset, MaxIndexBytes, MaxStoreBytes, seg, nextOffset, idxSize,
          indexExists, indexFile, storeExists, storeFile, storeBuf, storeSize,
          ret, log, storeRecs, unclean, lastNext, mu, tpc, tpay, tpos, tlock,
          calls>>

segVars == <<baseOffset, MaxIndexBytes, MaxStoreBytes, seg, nextOffset, idxSize,
             indexExists, indexFile, ret, log, unclean, lastNext>>

threadVars == <<mu, tpc, tpay, tpos, tlock, calls>>

-----------------------------------------------------------------------------
(* Bounds *)

\* the largest k for which MaxIndexBytes = 12 * k is configured
MaxEntries == 2

\* store appends in one run
MaxAppends == 3

\* threads calling store.Append concurrently
NumThreads == 2

-----------------------------------------------------------------------------
(* Widths and constants *)

U64 == 2^30
U32 == 2^15

offWidth == 4
posWidth == 8
entWidth == offWidth + posWidth
lenWidth == 8

ToUint64(x) == x % U64
ToInt64(x) == IF x % U64 >= U64 \div 2 THEN (x % U64) - U64 ELSE x % U64
ToUint32(x) == x % U32

Zeros(n) == [i \in 1..n |-> 0]

\* enc.PutUint32 / enc.PutUint64: v as n big-endian bytes
RECURSIVE PutUint(_, _)
PutUint(v, n) ==
    IF n = 0 THEN <<>> ELSE PutUint(v \div 256, n - 1) \o <<v % 256>>

\* enc.Uint32 / enc.Uint64: the value of big-endian bytes
RECURSIVE Uint(_)
Uint(b) ==
    IF b = <<>> THEN 0
    ELSE Uint(SubSeq(b, 1, Len(b) - 1)) * 256 + b[Len(b)]

-----------------------------------------------------------------------------
(* Records and their serialization (proto.Marshal / proto.Unmarshal of a   *)
(* message with `bytes value = 1; uint64 offset = 2;`): a field that has   *)
(* its zero value is not written.                                          *)

Values == {<<>>, <<7>>}

NoRec == [value |-> <<>>, offset |-> 0]

RECURSIVE Varint(_)
Varint(v) ==
    IF v < 128 THEN <<v>> ELSE <<128 + (v % 128)>> \o Varint(v \div 128)

\* [val, n]: the value and the number of bytes read; n = 0 when truncated
RECURSIVE DecodeVarint(_)
DecodeVarint(p) ==
    IF p = <<>> THEN [val |-> 0, n |-> 0]
    ELSE IF p[1] < 128 THEN [val |-> p[1], n |-> 1]
    ELSE LET r == DecodeVarint(Tail(p))
         IN  IF r.n = 0 THEN r
             ELSE [val |-> (p[1] - 128) + 128 * r.val, n |-> r.n + 1]

Marshal(record) ==
    (IF record.value # <<>>
        THEN <<10>> \o Varint(Len(record.value)) \o record.value
        ELSE <<>>)
    \o (IF record.offset # 0 THEN <<16>> \o Varint(record.offset) ELSE <<>>)

RECURSIVE UnmarshalInto(_, _)
UnmarshalInto(p, record) ==
    IF p = <<>> THEN [err |-> "nil", rec |-> record]
    ELSE LET v == DecodeVarint(Tail(p))
             after == SubSeq(p, 2 + v.n, Len(p))
         IN  IF v.n = 0 THEN [err |-> "unmarshal", rec |-> record]
             ELSE IF p[1] = 16
                 THEN UnmarshalInto(after, [record EXCEPT !.offset = v.val])
             ELSE IF p[1] = 10 /\ v.val <= Len(after)
                 THEN UnmarshalInto(SubSeq(after, v.val + 1, Len(after)),
                                    [record EXCEPT !.value = SubSeq(after, 1, v.val)])
             ELSE [err |-> "unmarshal", rec |-> record]

Unmarshal(p) == UnmarshalInto(p, NoRec)

-----------------------------------------------------------------------------
(* Store: [8-byte big-endian length][payload] records behind a buffered     *)
(* writer.                                                                  *)

Frame(p) == PutUint(Len(p), lenWidth) \o p

\* store.Read(pos) on the bytes of the file after the flush
StoreRead(bytes, pos) ==
    IF pos + lenWidth > Len(bytes) THEN [err |-> "io", p |-> <<>>]
    ELSE LET hi == SubSeq(bytes, pos + 1, pos + 5)
             n  == Uint(SubSeq(bytes, pos + 6, pos + lenWidth))
         IN  IF hi # Zeros(5) \/ pos + lenWidth + n > Len(bytes)
                 THEN [err |-> "io", p |-> <<>>]
                 ELSE [err |-> "nil",
                       p |-> SubSeq(bytes, pos + lenWidth + 1, pos + lenWidth + n)]

\* store.Close(): flush the buffer, then close the file
StoreClose(file, buf, f) ==
    IF f = "flush"
        THEN [err |-> "io", file |-> file, buf |-> buf, steps |-> <<"flush">>]
    ELSE IF f = "closeStore"
        THEN [err |-> "io", file |-> file \o buf, buf |-> <<>>,
              steps |-> <<"flush", "closeStore">>]
    ELSE [err |-> "nil", file |-> file \o buf, buf |-> <<>>,
          steps |-> <<"flush", "closeStore">>]

-----------------------------------------------------------------------------
(* Index *)

\* os.Truncate(name, n): cut, or extend with zero bytes
Truncate(file, n) ==
    IF Len(file) >= n THEN SubSeq(file, 1, n)
    ELSE file \o Zeros(n - Len(file))

\* index.Read(in) on a mapping `file` with index.size = size
IndexRead(file, size, in) ==
    IF size = 0 THEN [err |-> "EOF", out |-> 0, pos |-> 0]
    ELSE LET out == IF in = -1
                       THEN ToUint32(ToUint64((size \div entWidth) - 1))
                       ELSE ToUint32(in)
             bytePos == out * entWidth
         IN  IF size < bytePos + entWidth
                 THEN [err |-> "EOF", out |-> 0, pos |-> 0]
                 ELSE [err |-> "nil",
                       out |-> Uint(SubSeq(file, bytePos + 1, bytePos + offWidth)),
                       pos |-> Uint(SubSeq(file, bytePos + offWidth + 1,
                                           bytePos + entWidth))]

\* the bytes of `file` with `bytes` stored from byte offset `at`
PutAt(file, at, bytes) ==
    [i \in 1..Len(file) |->
        IF i > at /\ i <= at + Len(bytes) THEN bytes[i - at] ELSE file[i]]

\* index.Write with the room check comparing against size instead of
\* size + entWidth
IndexWriteNoRoomCheck(file, size, off, pos) ==
    IF Len(file) < size
        THEN [err |-> "EOF", file |-> file, size |-> size]
        ELSE [err |-> "nil",
              file |-> PutAt(PutAt(file, size, PutUint(off, offWidth)),
                             size + offWidth, PutUint(pos, posWidth)),
              size |-> size + entWidth]

\* index.Write storing every entry at the start of the mapping
IndexWriteAtStart(file, size, off, pos) ==
    IF Len(file) < size + entWidth
        THEN [err |-> "EOF", file |-> file, size |-> size]
        ELSE [err |-> "nil",
              file |-> PutAt(PutAt(file, 0, PutUint(off, offWidth)),
                             offWidth, PutUint(pos, posWidth)),
              size |-> size + entWidth]

\* index.Write advancing size before the room check
IndexWriteSizeFirst(file, size, off, pos) ==
    IF Len(file) < size + entWidth
        THEN [err |-> "EOF", file |-> file, size |-> size + entWidth]
        ELSE [err |-> "nil",
              file |-> PutAt(PutAt(file, size, PutUint(off, offWidth)),
                             size + offWidth, PutUint(pos, posWidth)),
              size |-> size + entWidth]

\* index.Write(off, pos) on a mapping `file` with index.size = size
IndexWrite(file, size, off, pos) ==
    IF Len(file) < size + entWidth
        THEN [err |-> "EOF", file |-> file, size |-> size]
        ELSE [err |-> "nil",
              file |-> PutAt(PutAt(file, size, PutUint(off, offWidth)),
                             size + offWidth, PutUint(pos, posWidth)),
              size |-> size + entWidth]

\* index.Close without the truncation to size
IndexCloseNoTruncate(file, size, f) ==
    IF f = "msync"
        THEN [err |-> "io", file |-> file, steps |-> <<"msync">>]
    ELSE IF f = "fsync"
        THEN [err |-> "io", file |-> file, steps |-> <<"msync", "fsync">>]
    ELSE IF f = "closeIndex"
        THEN [err |-> "io", file |-> file,
              steps |-> <<"msync", "fsync", "closeIndex">>]
    ELSE [err |-> "nil", file |-> file,
          steps |-> <<"msync", "fsync", "closeIndex">>]

\* index.Close(): the steps attempted, the error, and the file afterwards
IndexClose(file, size, f) ==
    IF f = "msync"
        THEN [err |-> "io", file |-> file, steps |-> <<"msync">>]
    ELSE IF f = "fsync"
        THEN [err |-> "io", file |-> file, steps |-> <<"msync", "fsync">>]
    ELSE IF f = "truncate"
        THEN [err |-> "io", file |-> file,
              steps |-> <<"msync", "fsync", "truncate">>]
    ELSE IF f = "closeIndex"
        THEN [err |-> "io", file |-> Truncate(file, size),
              steps |-> <<"msync", "fsync", "truncate", "closeIndex">>]
    ELSE [err |-> "nil", file |-> Truncate(file, size),
          steps |-> <<"msync", "fsync", "truncate", "closeIndex">>]

-----------------------------------------------------------------------------
(* Segment *)

Ret(op, err, off, rec, flag, steps, held) ==
    [op |-> op, err |-> err, off |-> off, rec |-> rec, flag |-> flag,
     steps |-> steps, held |-> held]

\* uint32(s.nextOffset - s.baseOffset)
relOffset(next, base) == ToUint32(ToUint64(next - base))

\* the nextOffset newSegment derives from index.Read(-1)
recoverNextOffset(base, ir) ==
    IF ir.err # "nil" THEN base ELSE ToUint64(base + ir.out + 1)

\* nextOffset incremented before the store append is attempted
advanceFirst(cur, storeErr, indexErr) == ToUint64(cur + 1)

\* nextOffset incremented once the store append succeeded
advanceAfterStore(cur, storeErr, indexErr) ==
    IF storeErr = "nil" THEN ToUint64(cur + 1) ELSE cur

\* segment.nextOffset when Append returns, from its value cur on entry
advance(cur, storeErr, indexErr) ==
    IF storeErr = "nil" /\ indexErr = "nil" THEN ToUint64(cur + 1) ELSE cur

\* segment.Read looking up the absolute offset in the index
SegmentReadAbsolute(base, ifile, isize, sbytes, off) ==
    LET ir == IndexRead(ifile, isize, ToInt64(off))
    IN  IF ir.err # "nil" THEN [err |-> ir.err, rec |-> NoRec]
        ELSE LET sr == StoreRead(sbytes, ir.pos)
             IN  IF sr.err # "nil" THEN [err |-> sr.err, rec |-> NoRec]
                 ELSE Unmarshal(sr.p)

\* segment.Read(off) on a segment with the given index and store bytes
SegmentRead(base, ifile, isize, sbytes, off) ==
    LET ir == IndexRead(ifile, isize, ToInt64(off - base))
    IN  IF ir.err # "nil" THEN [err |-> ir.err, rec |-> NoRec]
        ELSE LET sr == StoreRead(sbytes, ir.pos)
             IN  IF sr.err # "nil" THEN [err |-> sr.err, rec |-> NoRec]
                 ELSE Unmarshal(sr.p)

\* segment.Read(off) in the current state
SegRead(off) ==
    SegmentRead(baseOffset, indexFile, idxSize, storeFile \o storeBuf, off)

\* IsMaxed requiring both limits to be reached
IsMaxedBoth(ssize, isize, maxStore, maxIndex) ==
    ssize >= maxStore /\ isize >= maxIndex

\* segment.IsMaxed()
IsMaxed(ssize, isize, maxStore, maxIndex) ==
    ssize >= maxStore \/ isize >= maxIndex

\* segment.Close(): index.Close(), then store.Close()
SegmentClose(f) ==
    LET ic == IndexClose(indexFile, idxSize, f)
    IN  IF ic.err # "nil"
            THEN [err |-> ic.err, ifile |-> ic.file, sfile |-> storeFile,
                  sbuf |-> storeBuf, steps |-> ic.steps]
            ELSE LET sc == StoreClose(storeFile, storeBuf, f)
                 IN  [err |-> sc.err, ifile |-> ic.file, sfile |-> sc.file,
                      sbuf |-> sc.buf, steps |-> ic.steps \o sc.steps]

\* segment.Remove deleting the files although Close failed
removeFilesDespiteCloseError(closeErr, f) ==
    IF closeErr # "nil"
        THEN [err |-> closeErr, index |-> FALSE, store |-> FALSE,
              steps |-> <<"rmIndex", "rmStore">>]
    ELSE IF f = "rmIndex"
        THEN [err |-> "io", index |-> TRUE, store |-> TRUE,
              steps |-> <<"rmIndex">>]
    ELSE IF f = "rmStore"
        THEN [err |-> "io", index |-> FALSE, store |-> TRUE,
              steps |-> <<"rmIndex", "rmStore">>]
    ELSE [err |-> "nil", index |-> FALSE, store |-> FALSE,
          steps |-> <<"rmIndex", "rmStore">>]

\* the os.Remove calls of segment.Remove() after Close returned closeErr:
\* which of the two files exist afterwards, and the error returned
removeFiles(closeErr, f) ==
    IF closeErr # "nil"
        THEN [err |-> closeErr, index |-> TRUE, store |-> TRUE, steps |-> <<>>]
    ELSE IF f = "rmIndex"
        THEN [err |-> "io", index |-> TRUE, store |-> TRUE,
              steps |-> <<"rmIndex">>]
    ELSE IF f = "rmStore"
        THEN [err |-> "io", index |-> FALSE, store |-> TRUE,
              steps |-> <<"rmIndex", "rmStore">>]
    ELSE [err |-> "nil", index |-> FALSE, store |-> FALSE,
          steps |-> <<"rmIndex", "rmStore">>]

-----------------------------------------------------------------------------
(* Inputs *)

BaseOffsets == {0, 16}
IndexCaps == {entWidth, entWidth * MaxEntries, entWidth * MaxEntries - 4}
StoreCaps == {32}

NewSegmentFail == {"none", "openStore", "newStore", "openIndex", "stat", "truncate", "mmap"}
AppendFail == {"none", "marshal", "store"}
CloseFail == {"none", "msync", "fsync", "truncate", "closeIndex", "flush", "closeStore"}
RemoveFail == CloseFail \cup {"rmIndex", "rmStore"}

\* offsets a caller reads: inside the segment, just past it, just below
\* baseOffset, and 2^32 (scaled) above baseOffset
ReadOffsets ==
    {ToUint64(baseOffset + d) : d \in 0..MaxEntries}
    \cup {ToUint64(baseOffset - 1), baseOffset + U32}

Threads == 1..NumThreads

\* payloads the threads append to the store
Payloads == {<<5>>, <<6, 7>>}

-----------------------------------------------------------------------------
(* Initial state: an empty directory, no segment constructed *)

InitCommon ==
    /\ baseOffset \in BaseOffsets
    /\ MaxIndexBytes \in IndexCaps
    /\ MaxStoreBytes \in StoreCaps
    /\ seg = "none"
    /\ nextOffset = 0
    /\ idxSize = 0
    /\ indexExists = FALSE
    /\ indexFile = <<>>
    /\ storeFile = <<>>
    /\ storeBuf = <<>>
    /\ storeSize = 0
    /\ ret = Ret("init", "nil", 0, NoRec, FALSE, <<>>, {})
    /\ log = <<>>
    /\ storeRecs = 0
    /\ unclean = FALSE
    /\ lastNext = -1
    /\ mu = 0
    /\ tpc = [t \in Threads |-> "idle"]
    /\ tpay = [t \in Threads |-> <<>>]
    /\ tpos = [t \in Threads |-> 0]
    /\ tlock = [t \in Threads |-> 0]
    /\ calls = <<>>

Init == InitCommon /\ storeExists = FALSE

\* a store constructed over a new, empty file
InitStore == InitCommon /\ storeExists = TRUE

-----------------------------------------------------------------------------
(* Actions *)

\* newSegment(dir, baseOffset, c); f is the step that fails
NewSegment(f) ==
    /\ seg = "none"
    /\ LET size   == Len(indexFile)
           mapped == Truncate(indexFile, MaxIndexBytes)
           ir     == IndexRead(mapped, size, -1)
           held   == IF f = "openStore" THEN {}
                     ELSE IF f \in {"newStore", "openIndex"} THEN {"storeFile"}
                     ELSE IF f \in {"stat", "truncate"} THEN {"storeFile", "indexFile"}
                     ELSE {"storeFile", "indexFile", "mmap"} \ (IF f = "mmap" THEN {"mmap"} ELSE {})
       IN  /\ storeExists' = (storeExists \/ f # "openStore")
           /\ indexExists' = (indexExists \/ f \notin {"openStore", "newStore", "openIndex"})
           /\ indexFile' = IF f \in {"mmap", "none"} THEN mapped ELSE indexFile
           /\ unclean' = (unclean \/ (f = "mmap" /\ mapped # indexFile))
           /\ IF f = "none"
                 THEN /\ seg' = "open"
                      /\ idxSize' = size
                      /\ storeSize' = Len(storeFile)
                      /\ nextOffset' = recoverNextOffset(baseOffset, ir)
                      /\ ret' = Ret("newSegment", "nil", 0, NoRec, FALSE, <<>>, held)
                 ELSE /\ ret' = Ret("newSegment", "io", 0, NoRec, FALSE, <<>>, held)
                      /\ UNCHANGED <<seg, idxSize, storeSize, nextOffset>>
    /\ UNCHANGED <<baseOffset, MaxIndexBytes, MaxStoreBytes, storeFile, storeBuf,
                   log, storeRecs, lastNext, threadVars>>

\* segment.Append(record) with record.Value = v; f is the step that fails
SegmentAppend(v, f) ==
    /\ seg = "open"
    /\ storeRecs < MaxAppends
    /\ LET cur      == nextOffset
           record   == [value |-> v, offset |-> cur]
           p        == Marshal(record)
           storeErr == IF f = "store" THEN "io" ELSE "nil"
           pos      == storeSize
           w        == IndexWrite(indexFile, idxSize,
                                  relOffset(nextOffset, baseOffset), pos)
       IN  IF f = "marshal"
               THEN /\ ret' = Ret("Append", "marshal", 0, record, FALSE, <<>>, {})
                    /\ UNCHANGED <<storeBuf, storeSize, storeRecs, indexFile,
                                   idxSize, nextOffset, log>>
           ELSE IF f = "store"
               THEN /\ ret' = Ret("Append", "io", 0, record, FALSE, <<"store">>, {})
                    /\ nextOffset' = advance(cur, storeErr, "nil")
                    /\ UNCHANGED <<storeBuf, storeSize, storeRecs, indexFile,
                                   idxSize, log>>
           ELSE /\ storeBuf' = storeBuf \o Frame(p)
                /\ storeSize' = storeSize + lenWidth + Len(p)
                /\ storeRecs' = storeRecs + 1
                /\ indexFile' = w.file
                /\ idxSize' = w.size
                /\ nextOffset' = advance(cur, storeErr, w.err)
                /\ IF w.err = "nil"
                      THEN /\ ret' = Ret("Append", "nil", cur, record, FALSE,
                                         <<"store", "index">>, {})
                           /\ log' = Append(log, [off |-> cur, value |-> v, pos |-> pos])
                      ELSE /\ ret' = Ret("Append", w.err, 0, record, FALSE,
                                         <<"store", "index">>, {})
                           /\ log' = log
    /\ UNCHANGED <<baseOffset, MaxIndexBytes, MaxStoreBytes, seg, indexExists,
                   storeExists, storeFile, unclean, lastNext, threadVars>>

\* segment.Read(off); store.Read flushes the buffered writer before reading
Read(off) ==
    /\ seg = "open"
    /\ LET ir == IndexRead(indexFile, idxSize, ToInt64(off - baseOffset))
           r  == SegRead(off)
       IN  /\ ret' = Ret("Read", r.err, off, r.rec, FALSE, <<>>, {})
           /\ IF ir.err = "nil"
                 THEN storeFile' = storeFile \o storeBuf /\ storeBuf' = <<>>
                 ELSE UNCHANGED <<storeFile, storeBuf>>
    /\ UNCHANGED <<baseOffset, MaxIndexBytes, MaxStoreBytes, seg, nextOffset,
                   idxSize, indexExists, indexFile, storeExists, storeSize,
                   log, storeRecs, unclean, lastNext, threadVars>>

\* segment.IsMaxed()
CallIsMaxed ==
    /\ seg = "open"
    /\ ret' = Ret("IsMaxed", "nil", 0, NoRec,
                  IsMaxed(storeSize, idxSize, MaxStoreBytes, MaxIndexBytes),
                  <<>>, {})
    /\ UNCHANGED <<baseOffset, MaxIndexBytes, MaxStoreBytes, seg, nextOffset,
                   idxSize, indexExists, indexFile, storeExists, storeFile,
                   storeBuf, storeSize, log, storeRecs, unclean, lastNext,
                   threadVars>>

\* segment.Close(); f is the step that fails.  A closed segment value is
\* dead: its fields are reset.
Close(f) ==
    /\ seg = "open"
    /\ LET c == SegmentClose(f)
       IN  /\ indexFile' = c.ifile
           /\ storeFile' = c.sfile
           /\ storeBuf' = c.sbuf
           /\ ret' = Ret("Close", c.err, 0, NoRec, FALSE, c.steps, {})
           /\ IF c.err = "nil"
                 THEN /\ seg' = "none"
                      /\ lastNext' = nextOffset
                      /\ nextOffset' = 0
                      /\ idxSize' = 0
                      /\ storeSize' = 0
                 ELSE /\ seg' = "failed"
                      /\ UNCHANGED <<lastNext, nextOffset, idxSize, storeSize>>
    /\ UNCHANGED <<baseOffset, MaxIndexBytes, MaxStoreBytes, indexExists,
                   storeExists, log, storeRecs, unclean, threadVars>>

\* segment.Remove(); f is the step that fails
Remove(f) ==
    /\ seg = "open"
    /\ LET c == SegmentClose(IF f \in CloseFail THEN f ELSE "none")
           r == removeFiles(c.err, f)
       IN  /\ indexExists' = r.index
           /\ storeExists' = r.store
           /\ indexFile' = IF r.index THEN c.ifile ELSE <<>>
           /\ storeFile' = IF r.store THEN c.sfile ELSE <<>>
           /\ storeBuf' = c.sbuf
           /\ log' = IF r.index THEN log ELSE <<>>
           /\ unclean' = (r.index /\ unclean)
           /\ ret' = Ret("Remove", r.err, 0, NoRec, FALSE, c.steps \o r.steps, {})
           /\ IF c.err = "nil"
                 THEN /\ seg' = IF r.index = r.store THEN "none" ELSE "dead"
                      /\ lastNext' = IF r.index THEN nextOffset ELSE -1
                      /\ nextOffset' = 0
                      /\ idxSize' = 0
                      /\ storeSize' = 0
                 ELSE /\ seg' = "failed"
                      /\ UNCHANGED <<lastNext, nextOffset, idxSize, storeSize>>
    /\ UNCHANGED <<baseOffset, MaxIndexBytes, MaxStoreBytes, storeRecs, threadVars>>

\* the process dies: the store's buffered bytes are lost, the index file
\* keeps the length newIndex gave it and the bytes written through the mapping
Crash ==
    /\ seg \in {"open", "failed"}
    /\ seg' = "none"
    /\ storeBuf' = <<>>
    /\ nextOffset' = 0
    /\ idxSize' = 0
    /\ storeSize' = 0
    /\ unclean' = TRUE
    /\ ret' = Ret("crash", "nil", 0, NoRec, FALSE, <<>>, {})
    /\ UNCHANGED <<baseOffset, MaxIndexBytes, MaxStoreBytes, indexExists,
                   indexFile, storeExists, storeFile, log, storeRecs, lastNext,
                   threadVars>>

Next ==
    \/ \E f \in NewSegmentFail : NewSegment(f)
    \/ \E v \in Values, f \in AppendFail : SegmentAppend(v, f)
    \/ \E off \in ReadOffsets : Read(off)
    \/ CallIsMaxed
    \/ \E f \in CloseFail : Close(f)
    \/ \E f \in RemoveFail : Remove(f)
    \/ Crash

Spec == Init /\ [][Next]_vars

-----------------------------------------------------------------------------
(* store.Append(p) step by step, called by concurrent threads on one store: *)
(* lock, pos = size, write the length prefix, write the payload,           *)
(* size += 8 + len(p), unlock and return.                                   *)

\* store.Append without taking the lock
StoreLockNoMutex(t, p) ==
    /\ tpc[t] = "idle"
    /\ storeRecs < MaxAppends
    /\ mu' = t
    /\ tpc' = [tpc EXCEPT ![t] = "locked"]
    /\ tpay' = [tpay EXCEPT ![t] = p]
    /\ tlock' = [tlock EXCEPT ![t] = storeSize]
    /\ storeRecs' = storeRecs + 1
    /\ UNCHANGED <<segVars, storeExists, storeFile, storeBuf, storeSize, tpos, calls>>

StoreLock(t, p) ==
    /\ tpc[t] = "idle"
    /\ mu = 0
    /\ storeRecs < MaxAppends
    /\ mu' = t
    /\ tpc' = [tpc EXCEPT ![t] = "locked"]
    /\ tpay' = [tpay EXCEPT ![t] = p]
    /\ tlock' = [tlock EXCEPT ![t] = storeSize]
    /\ storeRecs' = storeRecs + 1
    /\ UNCHANGED <<segVars, storeExists, storeFile, storeBuf, storeSize, tpos, calls>>

StorePos(t) ==
    /\ tpc[t] = "locked"
    /\ tpos' = [tpos EXCEPT ![t] = storeSize]
    /\ tpc' = [tpc EXCEPT ![t] = "pos"]
    /\ UNCHANGED <<segVars, storeExists, storeFile, storeBuf, storeSize,
                   storeRecs, mu, tpay, tlock, calls>>

StorePrefix(t) ==
    /\ tpc[t] = "pos"
    /\ storeBuf' = storeBuf \o PutUint(Len(tpay[t]), lenWidth)
    /\ tpc' = [tpc EXCEPT ![t] = "prefix"]
    /\ UNCHANGED <<segVars, storeExists, storeFile, storeSize, storeRecs, mu,
                   tpay, tpos, tlock, calls>>

StorePayload(t) ==
    /\ tpc[t] = "prefix"
    /\ storeBuf' = storeBuf \o tpay[t]
    /\ tpc' = [tpc EXCEPT ![t] = "payload"]
    /\ UNCHANGED <<segVars, storeExists, storeFile, storeSize, storeRecs, mu,
                   tpay, tpos, tlock, calls>>

StoreSize(t) ==
    /\ tpc[t] = "payload"
    /\ storeSize' = storeSize + lenWidth + Len(tpay[t])
    /\ tpc' = [tpc EXCEPT ![t] = "sized"]
    /\ UNCHANGED <<segVars, storeExists, storeFile, storeBuf, storeRecs, mu,
                   tpay, tpos, tlock, calls>>

StoreUnlock(t) ==
    /\ tpc[t] = "sized"
    /\ mu' = 0
    /\ tpc' = [tpc EXCEPT ![t] = "idle"]
    /\ calls' = Append(calls, [t |-> t, pos |-> tpos[t], p |-> tpay[t],
                               atLock |-> tlock[t]])
    /\ UNCHANGED <<segVars, storeExists, storeFile, storeBuf, storeSize,
                   storeRecs, tpay, tpos, tlock>>

NextStore ==
    \E t \in Threads :
        \/ \E p \in Payloads : StoreLock(t, p)
        \/ StorePos(t)
        \/ StorePrefix(t)
        \/ StorePayload(t)
        \/ StoreSize(t)
        \/ StoreUnlock(t)

SpecStore == InitStore /\ [][NextStore]_vars

-----------------------------------------------------------------------------
(* Properties *)

InSeq(x, sq) == \E i \in 1..Len(sq) : sq[i] = x

\* the record Read must return for the i-th successful Append
Appended(i) ==
    [err |-> "nil", rec |-> [value |-> log[i].value, offset |-> log[i].off]]

\* C1: every record a successful Append stored on a segment that was never
\* left unclean reads back at the returned offset with the same payload and
\* with that offset in its offset field, and Append stamps the returned
\* offset into the caller's record.
RoundTrip ==
    /\ (seg = "open" /\ ~unclean) =>
           \A i \in 1..Len(log) : SegRead(log[i].off) = Appended(i)
    /\ (ret.op = "Read" /\ ~unclean) =>
           \A i \in 1..Len(log) :
               log[i].off = ret.off =>
                   /\ ret.err = "nil"
                   /\ ret.rec = [value |-> log[i].value, offset |-> ret.off]
    /\ (ret.op = "Append" /\ ret.err = "nil") => ret.rec.offset = ret.off

RoundTripWitness ==
    /\ ret.op = "Read" /\ ret.err = "nil" /\ ~unclean
    /\ baseOffset > 0
    /\ Len(log) >= 2
    /\ ret.off = log[2].off
    /\ ret.rec.value = <<7>>

\* C2: the offsets returned by the successful Appends on one segment are
\* baseOffset, baseOffset + 1, ... in order; failed Appends consume none.
OffsetMonotonic ==
    /\ \A i \in 1..Len(log) : log[i].off = baseOffset + i - 1
    /\ (ret.op = "Append" /\ ret.err = "nil") =>
           Len(log) > 0 /\ ret.off = log[Len(log)].off

OffsetMonotonicWitness ==
    /\ ret.op = "Append" /\ ret.err = "nil"
    /\ baseOffset > 0
    /\ Len(log) = 2
    /\ ret.off = baseOffset + 1

\* C3: a segment reopened after a successful Close (the index file never
\* left unclean) has the nextOffset it had before the Close, reads every
\* appended offset back with its payload, and fails Read(nextOffset) with
\* end-of-data.
RecoveryIdempotent ==
    (ret.op = "newSegment" /\ ret.err = "nil" /\ ~unclean /\ lastNext >= 0) =>
        /\ nextOffset = lastNext
        /\ \A i \in 1..Len(log) : SegRead(log[i].off) = Appended(i)
        /\ SegRead(nextOffset).err = "EOF"

RecoveryWitness ==
    /\ ret.op = "newSegment" /\ ret.err = "nil" /\ ~unclean
    /\ lastNext = baseOffset + 2
    /\ Len(log) = 2

RecoveryEmptyWitness ==
    /\ ret.op = "newSegment" /\ ret.err = "nil" /\ ~unclean
    /\ lastNext = baseOffset
    /\ Len(log) = 0

\* C4: whenever newSegment succeeds, also over the files a crash left
\* behind, nextOffset is baseOffset plus the number of records appended.
CrashRecovery ==
    (ret.op = "newSegment" /\ ret.err = "nil") =>
        nextOffset = baseOffset + Len(log)

\* C5: Read of an offset outside [baseOffset, nextOffset) fails with
\* end-of-data (here on a segment that was never left unclean).
ReadMiss ==
    (ret.op = "Read" /\ ~unclean
        /\ ~(baseOffset <= ret.off /\ ret.off < nextOffset)) =>
        ret.err = "EOF"

\* C6: with MaxIndexBytes = 12 * k, an Append that reaches the index write
\* succeeds while fewer than k records are indexed, and fails with the
\* capacity error (io.EOF) once k are.
CapacityEnforced ==
    (ret.op = "Append" /\ ret.steps = <<"store", "index">> /\ ~unclean
        /\ MaxIndexBytes % entWidth = 0) =>
        IF ret.err = "nil"
            THEN Len(log) <= MaxIndexBytes \div entWidth
            ELSE ret.err = "EOF" /\ Len(log) = MaxIndexBytes \div entWidth

CapacityWitness ==
    /\ ret.op = "Append" /\ ret.err = "EOF" /\ ~unclean
    /\ MaxIndexBytes = 2 * entWidth
    /\ Len(log) = 2
    /\ storeSize < MaxStoreBytes

\* C7: IsMaxed returns store.size >= MaxStoreBytes \/ index.size >=
\* MaxIndexBytes, changes nothing, and once true on a segment instance it
\* stays true.
MaxedNow == storeSize >= MaxStoreBytes \/ idxSize >= MaxIndexBytes

IsMaxedPure ==
    /\ [](ret.op = "IsMaxed" => ret.flag = MaxedNow)
    /\ [][/\ ret'.op = "IsMaxed" =>
                UNCHANGED <<baseOffset, MaxIndexBytes, MaxStoreBytes, seg,
                            nextOffset, idxSize, indexExists, indexFile,
                            storeExists, storeFile, storeBuf, storeSize>>
          /\ (seg = "open" /\ seg' = "open" /\ MaxedNow) => MaxedNow']_vars

IsMaxedWitness ==
    /\ ret.op = "IsMaxed" /\ ret.flag
    /\ idxSize >= MaxIndexBytes
    /\ storeSize < MaxStoreBytes

IsMaxedStoreWitness ==
    /\ ret.op = "IsMaxed" /\ ret.flag
    /\ idxSize < MaxIndexBytes
    /\ storeSize >= MaxStoreBytes

\* C8: an Append that fails leaves nextOffset unchanged; an Append that
\* succeeds has appended to the store and written the index, and increments
\* nextOffset by exactly 1.
AtMostOnce ==
    [][ret'.op = "Append" =>
          IF ret'.err = "nil"
              THEN /\ nextOffset' = nextOffset + 1
                   /\ storeSize' > storeSize
                   /\ idxSize' = idxSize + entWidth
              ELSE nextOffset' = nextOffset]_vars

AtMostOnceWitness ==
    /\ ret.op = "Append" /\ ret.err = "EOF"
    /\ nextOffset = baseOffset + 1
    /\ storeRecs = 2

AtMostOnceStoreWitness ==
    /\ ret.op = "Append" /\ ret.err = "io"
    /\ nextOffset = baseOffset + 1

\* C9: a successful Remove has closed the segment and then deleted the
\* index file and the store file, and a segment created next starts empty
\* at baseOffset; when Close fails no file is deleted; when deleting the
\* index fails the store file stays.
RemoveSteps ==
    <<"msync", "fsync", "truncate", "closeIndex", "flush", "closeStore",
      "rmIndex", "rmStore">>

RemoveDeletes ==
    [][/\ (ret'.op = "Remove" /\ ret'.err = "nil") =>
              ~indexExists' /\ ~storeExists' /\ ret'.steps = RemoveSteps
       /\ (ret'.op = "Remove" /\ ret'.err # "nil") =>
              \/ indexExists' /\ storeExists'
              \/ /\ ret'.steps = RemoveSteps
                 /\ ~indexExists' /\ storeExists'
       /\ (ret.op = "Remove" /\ ret.err = "nil"
              /\ ret'.op = "newSegment" /\ ret'.err = "nil") =>
              /\ nextOffset' = baseOffset
              /\ idxSize' = 0
              /\ storeSize' = 0
              /\ SegRead(baseOffset)'.err = "EOF"]_vars

RemoveWitness ==
    /\ ret.op = "Remove" /\ ret.err = "nil"
    /\ ~indexExists /\ ~storeExists
    /\ storeRecs >= 1

RemoveCloseFailedWitness ==
    /\ ret.op = "Remove" /\ ret.err # "nil"
    /\ ~InSeq("rmIndex", ret.steps)
    /\ indexExists /\ storeExists

RemoveThenCreateWitness ==
    /\ ret.op = "newSegment" /\ ret.err = "nil"
    /\ storeRecs >= 1 /\ indexExists
    /\ Len(log) = 0 /\ lastNext = -1 /\ ~unclean

\* C10: concurrent store.Append calls return distinct positions, each the
\* store size when the call took the lock; the byte ranges of the calls do
\* not overlap and each holds the call's length prefix and payload; when all
\* calls have returned, size is the sum of 8 + len(payload).
RECURSIVE SumFrames(_)
SumFrames(cs) ==
    IF cs = <<>> THEN 0
    ELSE lenWidth + Len(cs[1].p) + SumFrames(Tail(cs))

StoreAppendAtomic ==
    /\ \A i \in 1..Len(calls) :
           /\ calls[i].pos = calls[i].atLock
           /\ SubSeq(storeFile \o storeBuf, calls[i].pos + 1,
                     calls[i].pos + lenWidth + Len(calls[i].p))
                  = Frame(calls[i].p)
    /\ \A i, j \in 1..Len(calls) :
           i # j =>
               \/ calls[i].pos + lenWidth + Len(calls[i].p) <= calls[j].pos
               \/ calls[j].pos + lenWidth + Len(calls[j].p) <= calls[i].pos
    /\ (\A t \in Threads : tpc[t] = "idle") => storeSize = SumFrames(calls)

StoreAppendWitness ==
    /\ \A t \in Threads : tpc[t] = "idle"
    /\ Len(calls) = 3
    /\ calls[1].t # calls[2].t
    /\ calls[1].p # calls[2].p

\* C11: segment.Close attempts store.Close (flush, close) in every call,
\* also when index.Close failed, and returns the first error.
IndexCloseSteps == <<"msync", "fsync", "truncate", "closeIndex">>

CloseAttemptsBoth ==
    ret.op = "Close" =>
        /\ InSeq("msync", ret.steps)
        /\ InSeq("flush", ret.steps)
        /\ (ret.err = "nil" <=>
                ret.steps = IndexCloseSteps \o <<"flush", "closeStore">>)

\* C12: when newSegment returns an error, nothing it opened is still held.
NoLeakOnFailedConstruction ==
    (ret.op = "newSegment" /\ ret.err # "nil") =>
        ret.held = {} /\ seg # "open"

\* the relative offset and the position stored in entry i of the index
EntryOff(i) == Uint(SubSeq(indexFile, i * entWidth + 1, i * entWidth + offWidth))
EntryPos(i) ==
    Uint(SubSeq(indexFile, i * entWidth + offWidth + 1, (i + 1) * entWidth))

\* C13: index.Close runs msync, fsync, truncate, close in this order and
\* stops at the first error, which it returns; after a successful Close the
\* index file is size = 12 * (entries written) bytes long; while the segment
\* is open the file is MaxIndexBytes long.
IndexCloseContract ==
    /\ [](seg = "open" => Len(indexFile) = MaxIndexBytes)
    /\ [][ret'.op = "Close" =>
             /\ \E k \in 1..Len(RemoveSteps) - 2 :
                    ret'.steps = SubSeq(RemoveSteps, 1, k)
             /\ (Len(ret'.steps) < Len(IndexCloseSteps)) => ret'.err # "nil"
             /\ ret'.err = "nil" =>
                    /\ Len(indexFile') = idxSize
                    /\ idxSize = entWidth * Len(log)]_vars

\* the arguments newSegment and segment.Read pass to index.Read
IndexReadInputs == {-1} \cup {ToInt64(off - baseOffset) : off \in ReadOffsets}

\* C14: with n = size / 12 entries, index.Read(-1) returns entry n - 1,
\* index.Read(i) for 0 <= i < n returns the pair of the i-th Write, and every
\* other argument fails with end-of-data (here on an index that was never
\* left unclean).
IndexReadContract ==
    (seg = "open" /\ ~unclean) =>
        \A in \in IndexReadInputs :
            LET n == idxSize \div entWidth
                r == IndexRead(indexFile, idxSize, in)
                i == IF in = -1 THEN n - 1 ELSE in
            IN  IF 0 <= i /\ i < n
                    THEN /\ i < Len(log)
                         /\ r = [err |-> "nil", out |-> i, pos |-> log[i + 1].pos]
                    ELSE r.err = "EOF"

\* C15: index.Write fails with io.EOF exactly when size + 12 exceeds the
\* capacity and then changes nothing; otherwise it stores the relative
\* offset at size and the position at size + 4, adds 12 to size and leaves
\* every other byte as it was.
IndexWriteContract ==
    [][(ret'.op = "Append" /\ ret'.steps = <<"store", "index">>) =>
          IF idxSize + entWidth > MaxIndexBytes
              THEN /\ ret'.err = "EOF"
                   /\ idxSize' = idxSize
                   /\ indexFile' = indexFile
              ELSE /\ ret'.err = "nil"
                   /\ idxSize' = idxSize + entWidth
                   /\ Len(indexFile') = Len(indexFile)
                   /\ SubSeq(indexFile', idxSize + 1, idxSize + offWidth)
                          = PutUint(relOffset(nextOffset, baseOffset), offWidth)
                   /\ SubSeq(indexFile', idxSize + offWidth + 1, idxSize + entWidth)
                          = PutUint(storeSize, posWidth)
                   /\ \A b \in 1..Len(indexFile) :
                          (b <= idxSize \/ b > idxSize + entWidth) =>
                              indexFile'[b] = indexFile[b]]_vars

IndexWriteWitness ==
    /\ ret.op = "Append" /\ ret.err = "nil"
    /\ idxSize = 2 * entWidth
    /\ EntryOff(1) = 1
    /\ EntryPos(1) > 0
    /\ EntryPos(1) = log[2].pos

IndexWriteFullWitness ==
    /\ ret.op = "Append" /\ ret.err = "EOF"
    /\ MaxIndexBytes = 2 * entWidth - 4
    /\ idxSize = entWidth

\* C16: in an open index size is a multiple of 12 and at most the length
\* of the mapping, and entry i holds relative offset i.
IndexDense ==
    seg = "open" =>
        /\ idxSize % entWidth = 0
        /\ idxSize <= Len(indexFile)
        /\ \A i \in 0..(idxSize \div entWidth) - 1 : EntryOff(i) = i

\* C17: baseOffset never changes; in an open segment nextOffset >=
\* baseOffset, nextOffset never decreases, nextOffset - baseOffset is the
\* number of index entries, and every offset in [baseOffset, nextOffset)
\* can be read.
SegmentRange ==
    /\ [](seg = "open" =>
             /\ nextOffset >= baseOffset
             /\ nextOffset - baseOffset = idxSize \div entWidth
             /\ \A off \in baseOffset..(nextOffset - 1) :
                    SegRead(off).err = "nil")
    /\ [][/\ baseOffset' = baseOffset
          /\ (seg = "open" /\ seg' = "open") => nextOffset' >= nextOffset]_vars

\* C18: every index entry i holds the position at which the Append that
\* returned baseOffset + i put its record in the store, the record decodes
\* with offset baseOffset + i, and the positions increase with i.
IndexStoreConsistent ==
    seg = "open" =>
        \A i \in 0..(idxSize \div entWidth) - 1 :
            /\ i < Len(log)
            /\ log[i + 1].off = baseOffset + i
            /\ EntryPos(i) = log[i + 1].pos
            /\ i > 0 => EntryPos(i) > EntryPos(i - 1)
            /\ LET sr == StoreRead(storeFile \o storeBuf, EntryPos(i))
               IN  /\ sr.err = "nil"
                   /\ Unmarshal(sr.p) = Appended(i + 1)

\* C19: an Append fails with the index's capacity error only in a state in
\* which IsMaxed() is true.
IsMaxedAnticipates ==
    [][(ret'.op = "Append" /\ ret'.err = "EOF") => MaxedNow]_vars

\* C20: an Append that fails at the index write because the index is full
\* has grown the store by 8 + len(record) and left the index, index.size and
\* nextOffset unchanged; the store bytes written before are unchanged and
\* every offset returned before reads back its record;
\* the index stays full, so every later Append on the instance fails; a
\* clean Close followed by newSegment gives the same nextOffset.
IndexFull == idxSize + entWidth > MaxIndexBytes

FailedAppendFrame ==
    /\ []((ret.op = "Append" /\ ret.err = "EOF" /\ ~unclean) =>
              \A i \in 1..Len(log) : SegRead(log[i].off) = Appended(i))
    /\ [][/\ (ret'.op = "Append" /\ ret'.err = "EOF") =>
                 /\ IndexFull
                 /\ storeSize' = storeSize + lenWidth + Len(Marshal(ret'.rec))
                 /\ Len(storeFile' \o storeBuf')
                        = Len(storeFile \o storeBuf) + lenWidth + Len(Marshal(ret'.rec))
                 /\ indexFile' = indexFile
                 /\ idxSize' = idxSize
                 /\ nextOffset' = nextOffset
                 /\ SubSeq(storeFile' \o storeBuf', 1, Len(storeFile \o storeBuf))
                        = storeFile \o storeBuf
                 /\ log' = log
          /\ (IndexFull /\ seg = "open" /\ seg' = "open") => IndexFull'
          /\ (IndexFull /\ ret'.op = "Append") => ret'.err # "nil"
          /\ (ret.op = "Close" /\ ret.err = "nil"
                 /\ Len(indexFile) + entWidth > MaxIndexBytes
                 /\ ret'.op = "newSegment" /\ ret'.err = "nil") =>
                 nextOffset' = lastNext /\ IndexFull']_vars

FailedAppendWitness ==
    /\ ret.op = "Append" /\ ret.err = "EOF"
    /\ MaxIndexBytes = entWidth
    /\ Len(log) = 1 /\ ~unclean
    /\ storeRecs = 3
    /\ nextOffset = baseOffset + 1

FailedAppendReopenWitness ==
    /\ ret.op = "newSegment" /\ ret.err = "nil"
    /\ IndexFull /\ ~unclean
    /\ storeRecs > Len(log) /\ Len(log) > 0
    /\ lastNext = nextOffset

====
